---- MODULE Spec2Model ----
(***************************************************************************)
(* Authentication / authorization reconciliation of the NextAuth options   *)
(* object `authOptions`: the two credential strategies (neon-auth and      *)
(* credentials), the signIn callback with its federated synchronizer, the  *)
(* jwt callback (issuance and refresh) and the session callback.           *)
(*                                                                         *)
(* Every `await` of the source is a step boundary: a callback is a chain   *)
(* of actions, one per store call, so that other requests and out-of-band  *)
(* store changes interleave exactly where the event loop lets them.        *)
(***************************************************************************)
EXTENDS Naturals, Sequences, FiniteSets, TLC

\* ------------------------------------------------------------------ bounds
MaxEnv == 2          \* out-of-band changes (whitelist edits, outages) per run
MaxOps == 3          \* sign-in attempts and refreshes started per run

\* the requests (browser sessions); Spec follows one of them against stores
\* that change out-of-band
Procs == {"r1", "r2"}
Solo == {"r1"}

\* ------------------------------------------------------------- value sets
NoEmail == ""
NoPassword == ""
Emails == {"a@x.com", "A@x.com"}
Roles == {"ADMIN", "USER"}

\* bcrypt: the hash of a password, and the absence of one
Hash(pw) == <<"bcrypt", pw>>
NoHash == <<>>

\* the credentials a credential strategy is tried with
CredentialInputs ==
  {<<"a@x.com", "pw1">>, <<"a@x.com", "pw2">>, <<"A@x.com", "pw1">>,
   <<NoEmail, "pw1">>, <<"a@x.com", NoPassword>>}
\* what a federated provider asserts besides the email
Principals == {[name |-> "n1", image |-> "i1"], [name |-> "n2", image |-> "i2"]}

\* --------------------------------------------------------------- records
NoUser == [exists |-> FALSE, name |-> "", image |-> "", role |-> "", password |-> NoHash]
UserRow(n, i, r, h) == [exists |-> TRUE, name |-> n, image |-> i, role |-> r, password |-> h]

NoEntry ==
  [exists |-> FALSE, isActive |-> FALSE, canManageUsers |-> FALSE,
   canManageContent |-> FALSE, canManageSettings |-> FALSE]
Entry(a, u, c, s) ==
  [exists |-> TRUE, isActive |-> a, canManageUsers |-> u,
   canManageContent |-> c, canManageSettings |-> s]

NoRemote == [exists |-> FALSE, name |-> "", role |-> "", password |-> NoHash]
RemoteRow(n, r, h) == [exists |-> TRUE, name |-> n, role |-> r, password |-> h]

\* rows the stores may hold before the first request
InitUserRows ==
  {NoUser, UserRow("n1", "i1", "ADMIN", Hash("pw1")), UserRow("n1", "i1", "USER", Hash("pw1"))}
WhitelistRows ==
  {NoEntry, Entry(FALSE, TRUE, TRUE, TRUE), Entry(TRUE, TRUE, FALSE, FALSE),
   Entry(TRUE, FALSE, TRUE, TRUE)}
InitRemoteRows ==
  {NoRemote, RemoteRow("n1", "ADMIN", Hash("pw1")), RemoteRow("n1", "USER", Hash("pw1"))}

VARIABLES
  users,       \* local store, table user: email -> row
  whitelist,   \* local store, table adminWhitelist: email -> row
  remote,      \* remote store (Neon auth service): email -> row
  localUp,     \* the local store answers
  remoteUp,    \* the remote store answers
  pc,          \* per request: where its callback chain stands
  req,         \* per request: the credentials / the federated assertion
  user,        \* per request: the identity handed to signIn and jwt
  loc,         \* per request: the running callback's local constants
  trace,       \* per request: the store calls of the running callback, in order
  out,         \* per request: the last finished callback and its result
  token,       \* per request: the JWT claims
  session,     \* per request: the session view last projected
  nEnv,        \* out-of-band changes so far
  nOps         \* operations started so far

vars ==
  <<users, whitelist, remote, localUp, remoteUp, pc, req, user, loc, trace, out,
    token, session, nEnv, nOps>>

\* ---------------------------------------------------------------- values
NoId == <<>>
LocalId(e) == <<"user", e>>
RemoteId(e) == <<"neon", e>>
ProviderId(e) == <<"google", e>>

NoIdentity ==
  [exists |-> FALSE, id |-> NoId, email |-> NoEmail, name |-> "", image |-> "",
   neonRole |-> <<>>, permissions |-> <<>>]
NoToken ==
  [exists |-> FALSE, email |-> NoEmail, name |-> "", picture |-> "", sub |-> NoId,
   id |-> NoId, isAdmin |-> FALSE, canManageUsers |-> FALSE,
   canManageContent |-> FALSE, canManageSettings |-> FALSE, keys |-> {}]
NoSession ==
  [exists |-> FALSE, email |-> NoEmail, name |-> "", image |-> "", id |-> NoId,
   isAdmin |-> FALSE, canManageUsers |-> FALSE, canManageContent |-> FALSE,
   canManageSettings |-> FALSE, keys |-> {}]
NoReq == [provider |-> "", email |-> NoEmail, password |-> NoPassword]
NoLoc ==
  [userData |-> NoUser, adminEntry |-> NoEntry, userRole |-> "", neonUser |-> NoRemote,
   pending |-> "", tok |-> NoToken, issuing |-> FALSE]
NoOut == [op |-> "", result |-> ""]

\* ------------------------------------------------- the stores' operations
\* prisma.user.findUnique({where: {email}}): the row whose email column equals
\* the argument (the argument is passed as given, no case folding)
FindUser(e) == users[e]
\* prisma.adminWhitelist.findUnique({where: {email}})
FindWhitelist(e) == whitelist[e]

\* an upsert whose create branch leaves the role to the column default
UpsertUserCreateDefaultRole(tbl, e, n, i, r) ==
  [tbl EXCEPT ![e] =
     IF tbl[e].exists THEN [tbl[e] EXCEPT !.name = n, !.image = i, !.role = r]
     ELSE UserRow(n, i, "USER", NoHash)]

\* an upsert whose update branch leaves the name of the row as it was
UpsertUserKeepName(tbl, e, n, i, r) ==
  [tbl EXCEPT ![e] =
     IF tbl[e].exists THEN [tbl[e] EXCEPT !.image = i, !.role = r]
     ELSE UserRow(n, i, r, NoHash)]

\* prisma.user.upsert: update name, image, role of the row when present (its
\* password stays), else create the row
UpsertUser(tbl, e, n, i, r) ==
  [tbl EXCEPT ![e] =
     IF tbl[e].exists THEN [tbl[e] EXCEPT !.name = n, !.image = i, !.role = r]
     ELSE UserRow(n, i, r, NoHash)]

\* neonAuth.authenticateUser(email, password?): the record of the email, when
\* the password (if one is given) is the record's
RemoteAuthenticate(tbl, e, pw) ==
  IF tbl[e].exists /\ (pw = NoPassword \/ tbl[e].password = Hash(pw)) THEN tbl[e]
  ELSE NoRemote
\* neonAuth.createUser(email, name, role)
RemoteCreate(tbl, e, n, r) == [tbl EXCEPT ![e] = RemoteRow(n, r, NoHash)]
\* the fields of a RemoteUserRecord derived from its role
DatabaseRole(r) == <<"db", r>>
Permissions(r) == <<"perm", r>>

\* ------------------------------------------------ the callbacks' decisions
\* the errors, by the message the source throws:
\*   MissingCredentials  'Email and password are required'
\*   InvalidCredentials  'Invalid credentials'
\*   NotAuthorized       'Admin access required'
\*   NotWhitelisted      'Admin access not authorized'
\*   RemoteError / LocalError: what a failing store call throws

\* a guard that forgets the password
MissingEmailOnly(e, pw) == e = NoEmail

\* !credentials?.email || !credentials?.password
MissingCredentials(e, pw) == e = NoEmail \/ pw = NoPassword

\* a check that lets every remote role through
NeonCheckAnyRole(neonUser) ==
  IF ~neonUser.exists THEN "InvalidCredentials" ELSE "ok"

\* neon-auth authorize, after authenticateUser returned neonUser
NeonCheck(neonUser) ==
  IF ~neonUser.exists THEN "InvalidCredentials"
  ELSE IF neonUser.role # "ADMIN" THEN "NotAuthorized"
  ELSE "ok"

\* the object neon-auth authorize returns
NeonIdentity(e, neonUser) ==
  [exists |-> TRUE, id |-> RemoteId(e), email |-> e, name |-> neonUser.name,
   image |-> "", neonRole |-> DatabaseRole(neonUser.role),
   permissions |-> Permissions(neonUser.role)]

\* variant: the role is examined before the password
CredentialsCheckRoleFirst(userRow, pw) ==
  IF ~userRow.exists \/ userRow.password = NoHash THEN "InvalidCredentials"
  ELSE IF userRow.role # "ADMIN" THEN "NotAuthorized"
  ELSE IF userRow.password # Hash(pw) THEN "InvalidCredentials"
  ELSE "ok"

\* credentials authorize, after findUnique returned userRow: the checks made
\* before the whitelist is read
CredentialsCheck(userRow, pw) ==
  IF ~userRow.exists \/ userRow.password = NoHash THEN "InvalidCredentials"
  ELSE IF userRow.password # Hash(pw) THEN "InvalidCredentials"
  ELSE IF userRow.role # "ADMIN" THEN "NotAuthorized"
  ELSE "ok"

\* a whitelist check that is content with any row, active or not
CredentialsWhitelistCheckExists(adminEntry) ==
  IF ~adminEntry.exists THEN "NotWhitelisted" ELSE "ok"

\* credentials authorize, after the whitelist row was read
CredentialsWhitelistCheck(adminEntry) ==
  IF ~adminEntry.exists \/ ~adminEntry.isActive THEN "NotWhitelisted" ELSE "ok"

\* the object credentials authorize returns
CredentialsIdentity(e, userRow) ==
  [exists |-> TRUE, id |-> LocalId(e), email |-> e, name |-> userRow.name,
   image |-> userRow.image, neonRole |-> <<>>, permissions |-> <<>>]

\* what the federated provider hands to signIn
FederatedIdentity(e, pr) ==
  [exists |-> TRUE, id |-> ProviderId(e), email |-> e, name |-> pr.name,
   image |-> pr.image, neonRole |-> <<>>, permissions |-> <<>>]

\* variant: any whitelist row, active or not, gives the ADMIN role
TargetRoleFromExistence(adminEntry) ==
  IF adminEntry.exists THEN "ADMIN" ELSE "USER"

\* signIn: adminEntry?.isActive ?? false, then isAdmin ? 'ADMIN' : 'USER'
TargetRole(adminEntry) ==
  IF adminEntry.exists /\ adminEntry.isActive THEN "ADMIN" ELSE "USER"

\* the claims the framework passes to jwt on issuance: name, email, picture, sub
DefaultToken(u) ==
  [NoToken EXCEPT !.exists = TRUE, !.email = u.email, !.name = u.name,
                  !.picture = u.image, !.sub = u.id,
                  !.keys = {"name", "email", "picture", "sub"}]

\* variant: the identity's id is stored under sub and id is left unset
JwtSeedIntoSub(tok, u) ==
  IF u.exists THEN [tok EXCEPT !.sub = u.id] ELSE tok

\* jwt: if (user) token.id = user.id
JwtSeed(tok, u) ==
  IF u.exists THEN [tok EXCEPT !.id = u.id, !.keys = @ \cup {"id"}] ELSE tok

\* a resolver for which the role alone makes an administrator
JwtResolveRoleOnly(tok, userData, adminEntry) ==
  LET isAdmin == userData.exists /\ userData.role = "ADMIN"
  IN [tok EXCEPT
        !.isAdmin = isAdmin,
        !.canManageUsers = IF isAdmin THEN adminEntry.canManageUsers ELSE FALSE,
        !.canManageContent = IF isAdmin THEN adminEntry.canManageContent ELSE FALSE,
        !.canManageSettings = IF isAdmin THEN adminEntry.canManageSettings ELSE FALSE,
        !.keys = @ \cup {"isAdmin", "canManageUsers", "canManageContent",
                         "canManageSettings"}]

\* a resolver that copies the whitelist flags without the isAdmin gate
JwtResolveUngated(tok, userData, adminEntry) ==
  LET isAdmin == (userData.exists /\ userData.role = "ADMIN")
                 /\ (adminEntry.exists /\ adminEntry.isActive)
  IN [tok EXCEPT
        !.isAdmin = isAdmin,
        !.canManageUsers = adminEntry.canManageUsers,
        !.canManageContent = adminEntry.canManageContent,
        !.canManageSettings = adminEntry.canManageSettings,
        !.keys = @ \cup {"isAdmin", "canManageUsers", "canManageContent",
                         "canManageSettings"}]

\* a resolver that grants an administrator every permission
JwtResolveAllPermissions(tok, userData, adminEntry) ==
  LET isAdmin == (userData.exists /\ userData.role = "ADMIN")
                 /\ (adminEntry.exists /\ adminEntry.isActive)
  IN [tok EXCEPT
        !.isAdmin = isAdmin,
        !.canManageUsers = isAdmin,
        !.canManageContent = isAdmin,
        !.canManageSettings = isAdmin,
        !.keys = @ \cup {"isAdmin", "canManageUsers", "canManageContent",
                         "canManageSettings"}]

\* a resolver that keeps an administrator verdict already in the claims
JwtResolveCached(tok, userData, adminEntry) ==
  LET isAdmin == tok.isAdmin
                 \/ ((userData.exists /\ userData.role = "ADMIN")
                     /\ (adminEntry.exists /\ adminEntry.isActive))
  IN [tok EXCEPT
        !.isAdmin = isAdmin,
        !.canManageUsers = IF isAdmin THEN adminEntry.canManageUsers ELSE FALSE,
        !.canManageContent = IF isAdmin THEN adminEntry.canManageContent ELSE FALSE,
        !.canManageSettings = IF isAdmin THEN adminEntry.canManageSettings ELSE FALSE,
        !.keys = @ \cup {"isAdmin", "canManageUsers", "canManageContent",
                         "canManageSettings"}]

\* a resolver that also accepts the ADMIN role of the remote record
JwtResolveRemoteRole(tok, userData, adminEntry) ==
  LET hasAdminRole == (userData.exists /\ userData.role = "ADMIN")
                      \/ (remote[tok.email].exists /\ remote[tok.email].role = "ADMIN")
      isAdmin == hasAdminRole /\ (adminEntry.exists /\ adminEntry.isActive)
  IN [tok EXCEPT
        !.isAdmin = isAdmin,
        !.canManageUsers = IF isAdmin THEN adminEntry.canManageUsers ELSE FALSE,
        !.canManageContent = IF isAdmin THEN adminEntry.canManageContent ELSE FALSE,
        !.canManageSettings = IF isAdmin THEN adminEntry.canManageSettings ELSE FALSE,
        !.keys = @ \cup {"isAdmin", "canManageUsers", "canManageContent",
                         "canManageSettings"}]

\* jwt: the four authorization fields written from userData and adminEntry
JwtResolve(tok, userData, adminEntry) ==
  LET hasAdminRole == userData.exists /\ userData.role = "ADMIN"
      isInActiveWhitelist == adminEntry.exists /\ adminEntry.isActive
      isAdmin == hasAdminRole /\ isInActiveWhitelist
  IN [tok EXCEPT
        !.isAdmin = isAdmin,
        !.canManageUsers = IF isAdmin THEN adminEntry.canManageUsers ELSE FALSE,
        !.canManageContent = IF isAdmin THEN adminEntry.canManageContent ELSE FALSE,
        !.canManageSettings = IF isAdmin THEN adminEntry.canManageSettings ELSE FALSE,
        !.keys = @ \cup {"isAdmin", "canManageUsers", "canManageContent",
                         "canManageSettings"}]

\* a session callback that spreads the whole token into the view
ProjectSessionSpread(tok) ==
  [exists |-> TRUE, email |-> tok.email, name |-> tok.name, image |-> tok.picture,
   id |-> tok.id, isAdmin |-> tok.isAdmin, canManageUsers |-> tok.canManageUsers,
   canManageContent |-> tok.canManageContent,
   canManageSettings |-> tok.canManageSettings,
   keys |-> {"name", "email", "image"} \cup tok.keys]

\* session: the view the framework builds from the claims (name, email, image)
\* with the five fields the callback copies
ProjectSession(tok) ==
  [exists |-> TRUE, email |-> tok.email, name |-> tok.name, image |-> tok.picture,
   id |-> tok.id, isAdmin |-> tok.isAdmin, canManageUsers |-> tok.canManageUsers,
   canManageContent |-> tok.canManageContent,
   canManageSettings |-> tok.canManageSettings,
   keys |-> {"name", "email", "image", "id", "isAdmin", "canManageUsers",
             "canManageContent", "canManageSettings"}]

\* ------------------------------------------------------------------- Init
Init ==
  /\ users \in {[e \in Emails |-> IF e = "a@x.com" THEN r ELSE NoUser] : r \in InitUserRows}
  /\ whitelist \in {[e \in Emails |-> IF e = "a@x.com" THEN r ELSE NoEntry] : r \in WhitelistRows}
  /\ remote \in {[e \in Emails |-> IF e = "a@x.com" THEN r ELSE NoRemote] : r \in InitRemoteRows}
  /\ localUp = TRUE
  /\ remoteUp = TRUE
  /\ pc = [p \in Procs |-> "idle"]
  /\ req = [p \in Procs |-> NoReq]
  /\ user = [p \in Procs |-> NoIdentity]
  /\ loc = [p \in Procs |-> NoLoc]
  /\ trace = [p \in Procs |-> <<>>]
  /\ out = [p \in Procs |-> NoOut]
  /\ token = [p \in Procs |-> NoToken]
  /\ session = [p \in Procs |-> NoSession]
  /\ nEnv = 0
  /\ nOps = 0

\* a store call, with whether it answered
Call(name, ok) == <<name, ok>>
Finished(op, result) == [op |-> op, result |-> result]

\* ----------------------------------------- neon-auth strategy: authorize
\* the guard, getNeonAuthService() and authenticateUser
NeonAuthorize(p, e, pw) ==
  /\ pc[p] = "idle"
  /\ nOps < MaxOps
  /\ nOps' = nOps + 1
  /\ req' = [req EXCEPT ![p] = [NoReq EXCEPT !.provider = "neon-auth", !.email = e,
                                              !.password = pw]]
  /\ IF MissingCredentials(e, pw)
     THEN /\ trace' = [trace EXCEPT ![p] = <<>>]
          /\ loc' = [loc EXCEPT ![p] = NoLoc]
          /\ out' = [out EXCEPT ![p] = Finished("neon-auth", "MissingCredentials")]
          /\ pc' = pc
     ELSE /\ trace' = [trace EXCEPT ![p] =
                         <<Call("getNeonAuthService", TRUE), Call("authenticateUser", remoteUp)>>]
          /\ loc' = [loc EXCEPT ![p] =
                       IF remoteUp
                       THEN LET neonUser == RemoteAuthenticate(remote, e, pw)
                            IN [NoLoc EXCEPT !.neonUser = neonUser,
                                             !.pending = NeonCheck(neonUser)]
                       ELSE [NoLoc EXCEPT !.pending = "RemoteError"]]
          /\ out' = [out EXCEPT ![p] = NoOut]
          /\ pc' = [pc EXCEPT ![p] = "neon_finally"]
  /\ UNCHANGED <<users, whitelist, remote, localUp, remoteUp, user, token, session, nEnv>>

\* a cleanup that runs on the success path only
NeonFinallyOnSuccess(p) ==
  /\ pc[p] = "neon_finally"
  /\ trace' = [trace EXCEPT ![p] =
                 IF loc[p].pending = "ok" THEN Append(@, Call("disconnect", remoteUp)) ELSE @]
  /\ LET result == IF remoteUp \/ loc[p].pending # "ok" THEN loc[p].pending ELSE "RemoteError"
     IN /\ out' = [out EXCEPT ![p] = Finished("neon-auth", result)]
        /\ IF result = "ok"
           THEN /\ user' = [user EXCEPT ![p] = NeonIdentity(req[p].email, loc[p].neonUser)]
                /\ pc' = [pc EXCEPT ![p] = "signin"]
           ELSE /\ user' = user
                /\ pc' = [pc EXCEPT ![p] = "idle"]
  /\ UNCHANGED <<users, whitelist, remote, localUp, remoteUp, req, loc, token, session,
                 nEnv, nOps>>

\* finally { await neonAuth.disconnect() }: an error thrown here replaces the
\* pending return value or error
NeonFinally(p) ==
  /\ pc[p] = "neon_finally"
  /\ trace' = [trace EXCEPT ![p] = Append(@, Call("disconnect", remoteUp))]
  /\ LET result == IF remoteUp THEN loc[p].pending ELSE "RemoteError"
     IN /\ out' = [out EXCEPT ![p] = Finished("neon-auth", result)]
        /\ IF result = "ok"
           THEN /\ user' = [user EXCEPT ![p] = NeonIdentity(req[p].email, loc[p].neonUser)]
                /\ pc' = [pc EXCEPT ![p] = "signin"]
           ELSE /\ user' = user
                /\ pc' = [pc EXCEPT ![p] = "idle"]
  /\ UNCHANGED <<users, whitelist, remote, localUp, remoteUp, req, loc, token, session,
                 nEnv, nOps>>

\* --------------------------------------- credentials strategy: authorize
\* the guard, prisma.user.findUnique, bcrypt.compare and the role check
CredentialsAuthorize(p, e, pw) ==
  /\ pc[p] = "idle"
  /\ nOps < MaxOps
  /\ nOps' = nOps + 1
  /\ req' = [req EXCEPT ![p] = [NoReq EXCEPT !.provider = "credentials", !.email = e,
                                              !.password = pw]]
  /\ IF MissingCredentials(e, pw)
     THEN /\ trace' = [trace EXCEPT ![p] = <<>>]
          /\ loc' = [loc EXCEPT ![p] = NoLoc]
          /\ out' = [out EXCEPT ![p] = Finished("credentials", "MissingCredentials")]
          /\ pc' = pc
     ELSE /\ trace' = [trace EXCEPT ![p] = <<Call("user.findUnique", localUp)>>]
          /\ IF ~localUp
             THEN /\ loc' = [loc EXCEPT ![p] = NoLoc]
                  /\ out' = [out EXCEPT ![p] = Finished("credentials", "LocalError")]
                  /\ pc' = pc
             ELSE LET userRow == FindUser(e)
                      check == CredentialsCheck(userRow, pw)
                  IN /\ loc' = [loc EXCEPT ![p] = [NoLoc EXCEPT !.userData = userRow]]
                     /\ IF check = "ok"
                        THEN /\ out' = [out EXCEPT ![p] = NoOut]
                             /\ pc' = [pc EXCEPT ![p] = "cred_whitelist"]
                        ELSE /\ out' = [out EXCEPT ![p] = Finished("credentials", check)]
                             /\ pc' = pc
  /\ UNCHANGED <<users, whitelist, remote, localUp, remoteUp, user, token, session, nEnv>>

\* prisma.adminWhitelist.findUnique and the return
CredentialsWhitelist(p) ==
  /\ pc[p] = "cred_whitelist"
  /\ trace' = [trace EXCEPT ![p] = Append(@, Call("adminWhitelist.findUnique", localUp))]
  /\ IF ~localUp
     THEN /\ out' = [out EXCEPT ![p] = Finished("credentials", "LocalError")]
          /\ pc' = [pc EXCEPT ![p] = "idle"]
          /\ UNCHANGED <<loc, user>>
     ELSE LET adminEntry == FindWhitelist(req[p].email)
              check == CredentialsWhitelistCheck(adminEntry)
          IN /\ loc' = [loc EXCEPT ![p].adminEntry = adminEntry]
             /\ out' = [out EXCEPT ![p] = Finished("credentials", check)]
             /\ IF check = "ok"
                THEN /\ user' = [user EXCEPT ![p] =
                                   CredentialsIdentity(req[p].email, loc[p].userData)]
                     /\ pc' = [pc EXCEPT ![p] = "signin"]
                ELSE /\ user' = user
                     /\ pc' = [pc EXCEPT ![p] = "idle"]
  /\ UNCHANGED <<users, whitelist, remote, localUp, remoteUp, req, token, session, nEnv, nOps>>

\* variant: the synchronizer runs for every strategy
SignInCredentialsSyncs(p) ==
  /\ pc[p] = "signin"
  /\ trace' = [trace EXCEPT ![p] = <<Call("user.upsert", TRUE)>>]
  /\ loc' = [loc EXCEPT ![p] = NoLoc]
  /\ out' = [out EXCEPT ![p] = Finished("signIn", "accept")]
  /\ pc' = [pc EXCEPT ![p] = "issue"]
  /\ users' = UpsertUser(users, user[p].email, user[p].name, user[p].image, "USER")
  /\ UNCHANGED <<whitelist, remote, localUp, remoteUp, req, user, token, session,
                 nEnv, nOps>>

\* ------------------------------------------------------ callback: signIn
\* signIn after a credential strategy returned an identity: account.provider
\* is not 'google', so the callback returns true at once
SignInCredentials(p) ==
  /\ pc[p] = "signin"
  /\ trace' = [trace EXCEPT ![p] = <<>>]
  /\ loc' = [loc EXCEPT ![p] = NoLoc]
  /\ out' = [out EXCEPT ![p] = Finished("signIn", "accept")]
  /\ pc' = [pc EXCEPT ![p] = "issue"]
  /\ UNCHANGED <<users, whitelist, remote, localUp, remoteUp, req, user, token, session,
                 nEnv, nOps>>

\* variant: a whitelist gate in signIn, refusing a principal whose entry is
\* absent or inactive
SignInFederatedGated(p, e, pr) ==
  /\ pc[p] = "idle"
  /\ nOps < MaxOps
  /\ nOps' = nOps + 1
  /\ req' = [req EXCEPT ![p] = [NoReq EXCEPT !.provider = "google", !.email = e]]
  /\ IF e = NoEmail
     THEN /\ trace' = [trace EXCEPT ![p] = <<>>]
          /\ loc' = [loc EXCEPT ![p] = NoLoc]
          /\ out' = [out EXCEPT ![p] = Finished("signIn", "accept")]
          /\ user' = [user EXCEPT ![p] = FederatedIdentity(e, pr)]
          /\ pc' = [pc EXCEPT ![p] = "issue"]
     ELSE /\ trace' = [trace EXCEPT ![p] = <<Call("adminWhitelist.findUnique", localUp)>>]
          /\ IF ~localUp
             THEN /\ loc' = [loc EXCEPT ![p] = NoLoc]
                  /\ out' = [out EXCEPT ![p] = Finished("signIn", "LocalError")]
                  /\ user' = user
                  /\ pc' = pc
             ELSE LET adminEntry == FindWhitelist(e)
                  IN /\ loc' = [loc EXCEPT ![p] =
                                  [NoLoc EXCEPT !.adminEntry = adminEntry,
                                                !.userRole = TargetRole(adminEntry)]]
                     /\ IF TargetRole(adminEntry) = "ADMIN"
                        THEN /\ out' = [out EXCEPT ![p] = NoOut]
                             /\ user' = [user EXCEPT ![p] = FederatedIdentity(e, pr)]
                             /\ pc' = [pc EXCEPT ![p] = "si_upsert"]
                        ELSE /\ out' = [out EXCEPT ![p] = Finished("signIn", "reject")]
                             /\ user' = user
                             /\ pc' = pc
  /\ UNCHANGED <<users, whitelist, remote, localUp, remoteUp, token, session, nEnv>>

\* signIn for account.provider = 'google': the guard on user.email and the
\* whitelist read that fixes userRole
SignInFederated(p, e, pr) ==
  /\ pc[p] = "idle"
  /\ nOps < MaxOps
  /\ nOps' = nOps + 1
  /\ req' = [req EXCEPT ![p] = [NoReq EXCEPT !.provider = "google", !.email = e]]
  /\ IF e = NoEmail
     THEN /\ trace' = [trace EXCEPT ![p] = <<>>]
          /\ loc' = [loc EXCEPT ![p] = NoLoc]
          /\ out' = [out EXCEPT ![p] = Finished("signIn", "accept")]
          /\ user' = [user EXCEPT ![p] = FederatedIdentity(e, pr)]
          /\ pc' = [pc EXCEPT ![p] = "issue"]
     ELSE /\ trace' = [trace EXCEPT ![p] = <<Call("adminWhitelist.findUnique", localUp)>>]
          /\ IF ~localUp
             THEN /\ loc' = [loc EXCEPT ![p] = NoLoc]
                  /\ out' = [out EXCEPT ![p] = Finished("signIn", "LocalError")]
                  /\ user' = user
                  /\ pc' = pc
             ELSE LET adminEntry == FindWhitelist(e)
                  IN /\ loc' = [loc EXCEPT ![p] =
                                  [NoLoc EXCEPT !.adminEntry = adminEntry,
                                                !.userRole = TargetRole(adminEntry)]]
                     /\ out' = [out EXCEPT ![p] = NoOut]
                     /\ user' = [user EXCEPT ![p] = FederatedIdentity(e, pr)]
                     /\ pc' = [pc EXCEPT ![p] = "si_upsert"]
  /\ UNCHANGED <<users, whitelist, remote, localUp, remoteUp, token, session, nEnv>>

\* variant: a failed upsert is swallowed and provisioning goes on
SignInUpsertTolerant(p) ==
  /\ pc[p] = "si_upsert"
  /\ trace' = [trace EXCEPT ![p] = Append(@, Call("user.upsert", localUp))]
  /\ users' = IF localUp
              THEN UpsertUser(users, user[p].email, user[p].name, user[p].image,
                              loc[p].userRole)
              ELSE users
  /\ pc' = [pc EXCEPT ![p] = "si_lookup"]
  /\ UNCHANGED <<out, user>>
  /\ UNCHANGED <<whitelist, remote, localUp, remoteUp, req, loc, token, session, nEnv, nOps>>

\* await prisma.user.upsert(...)
SignInUpsert(p) ==
  /\ pc[p] = "si_upsert"
  /\ trace' = [trace EXCEPT ![p] = Append(@, Call("user.upsert", localUp))]
  /\ IF ~localUp
     THEN /\ out' = [out EXCEPT ![p] = Finished("signIn", "LocalError")]
          /\ user' = [user EXCEPT ![p] = NoIdentity]
          /\ pc' = [pc EXCEPT ![p] = "idle"]
          /\ users' = users
     ELSE /\ users' = UpsertUser(users, user[p].email, user[p].name, user[p].image,
                                 loc[p].userRole)
          /\ pc' = [pc EXCEPT ![p] = "si_lookup"]
          /\ UNCHANGED <<out, user>>
  /\ UNCHANGED <<whitelist, remote, localUp, remoteUp, req, loc, token, session, nEnv, nOps>>

\* a lookup whose failure is rethrown instead of swallowed
SignInLookupRethrows(p) ==
  /\ pc[p] = "si_lookup"
  /\ trace' = [trace EXCEPT ![p] =
                 @ \o <<Call("getNeonAuthService", TRUE), Call("authenticateUser", remoteUp)>>]
  /\ IF ~remoteUp
     THEN /\ out' = [out EXCEPT ![p] = Finished("signIn", "RemoteError")]
          /\ pc' = [pc EXCEPT ![p] = "idle"]
          /\ loc' = loc
     ELSE LET existingNeonUser == RemoteAuthenticate(remote, user[p].email, NoPassword)
          IN /\ loc' = [loc EXCEPT ![p].neonUser = existingNeonUser]
             /\ pc' = [pc EXCEPT ![p] =
                         IF existingNeonUser.exists THEN "si_disconnect" ELSE "si_create"]
             /\ out' = out
  /\ UNCHANGED <<users, whitelist, remote, localUp, remoteUp, req, user, token, session,
                 nEnv, nOps>>

\* variant: createUser is called whatever the lookup returned
SignInLookupAlwaysCreates(p) ==
  /\ pc[p] = "si_lookup"
  /\ trace' = [trace EXCEPT ![p] =
                 @ \o <<Call("getNeonAuthService", TRUE), Call("authenticateUser", remoteUp)>>]
  /\ IF ~remoteUp
     THEN /\ out' = [out EXCEPT ![p] = Finished("signIn", "accept")]
          /\ pc' = [pc EXCEPT ![p] = "issue"]
          /\ loc' = loc
     ELSE LET existingNeonUser == RemoteAuthenticate(remote, user[p].email, NoPassword)
          IN /\ loc' = [loc EXCEPT ![p].neonUser = existingNeonUser]
             /\ pc' = [pc EXCEPT ![p] = "si_create"]
             /\ out' = out
  /\ UNCHANGED <<users, whitelist, remote, localUp, remoteUp, req, user, token, session,
                 nEnv, nOps>>

\* variant: the lookup is made but an absent record is never provisioned
SignInLookupNoCreate(p) ==
  /\ pc[p] = "si_lookup"
  /\ trace' = [trace EXCEPT ![p] =
                 @ \o <<Call("getNeonAuthService", TRUE), Call("authenticateUser", remoteUp)>>]
  /\ IF ~remoteUp
     THEN /\ out' = [out EXCEPT ![p] = Finished("signIn", "accept")]
          /\ pc' = [pc EXCEPT ![p] = "issue"]
          /\ loc' = loc
     ELSE LET existingNeonUser == RemoteAuthenticate(remote, user[p].email, NoPassword)
          IN /\ loc' = [loc EXCEPT ![p].neonUser = existingNeonUser]
             /\ pc' = [pc EXCEPT ![p] = "si_disconnect"]
             /\ out' = out
  /\ UNCHANGED <<users, whitelist, remote, localUp, remoteUp, req, user, token, session,
                 nEnv, nOps>>

\* try { getNeonAuthService(); await neonAuth.authenticateUser(user.email) ...
\* a throw lands in the catch, which logs and lets signIn return true
SignInLookup(p) ==
  /\ pc[p] = "si_lookup"
  /\ trace' = [trace EXCEPT ![p] =
                 @ \o <<Call("getNeonAuthService", TRUE), Call("authenticateUser", remoteUp)>>]
  /\ IF ~remoteUp
     THEN /\ out' = [out EXCEPT ![p] = Finished("signIn", "accept")]
          /\ pc' = [pc EXCEPT ![p] = "issue"]
          /\ loc' = loc
     ELSE LET existingNeonUser == RemoteAuthenticate(remote, user[p].email, NoPassword)
          IN /\ loc' = [loc EXCEPT ![p].neonUser = existingNeonUser]
             /\ pc' = [pc EXCEPT ![p] =
                         IF existingNeonUser.exists THEN "si_disconnect" ELSE "si_create"]
             /\ out' = out
  /\ UNCHANGED <<users, whitelist, remote, localUp, remoteUp, req, user, token, session,
                 nEnv, nOps>>

\* await neonAuth.createUser(user.email, user.name || undefined, userRole)
SignInCreate(p) ==
  /\ pc[p] = "si_create"
  /\ trace' = [trace EXCEPT ![p] = Append(@, Call("createUser", remoteUp))]
  /\ IF ~remoteUp
     THEN /\ out' = [out EXCEPT ![p] = Finished("signIn", "accept")]
          /\ pc' = [pc EXCEPT ![p] = "issue"]
          /\ remote' = remote
     ELSE /\ remote' = RemoteCreate(remote, user[p].email, user[p].name, loc[p].userRole)
          /\ pc' = [pc EXCEPT ![p] = "si_disconnect"]
          /\ out' = out
  /\ UNCHANGED <<users, whitelist, localUp, remoteUp, req, user, loc, token, session,
                 nEnv, nOps>>

\* await neonAuth.disconnect(), the last statement of the try block
SignInDisconnect(p) ==
  /\ pc[p] = "si_disconnect"
  /\ trace' = [trace EXCEPT ![p] = Append(@, Call("disconnect", remoteUp))]
  /\ out' = [out EXCEPT ![p] = Finished("signIn", "accept")]
  /\ pc' = [pc EXCEPT ![p] = "issue"]
  /\ UNCHANGED <<users, whitelist, remote, localUp, remoteUp, req, user, loc, token,
                 session, nEnv, nOps>>

\* --------------------------------------------------------- callback: jwt
\* the seeding of token.id, the guard on token.email and prisma.user.findUnique.
\* The claims object is the callback's own until it returns: a throw leaves
\* the request's claims as they were.
JwtStart(p, issuing) ==
  LET tok == JwtSeed(IF issuing THEN DefaultToken(user[p]) ELSE token[p],
                     IF issuing THEN user[p] ELSE NoIdentity)
  IN IF tok.email = NoEmail
     THEN /\ trace' = [trace EXCEPT ![p] = <<>>]
          /\ loc' = [loc EXCEPT ![p] = [NoLoc EXCEPT !.tok = tok, !.issuing = issuing]]
          /\ token' = [token EXCEPT ![p] = tok]
          /\ out' = [out EXCEPT ![p] = Finished("jwt", "ok")]
          /\ pc' = [pc EXCEPT ![p] = "active"]
          /\ user' = user
     ELSE /\ trace' = [trace EXCEPT ![p] = <<Call("user.findUnique", localUp)>>]
          /\ token' = token
          /\ IF ~localUp
             THEN /\ loc' = [loc EXCEPT ![p] = [NoLoc EXCEPT !.tok = tok, !.issuing = issuing]]
                  /\ out' = [out EXCEPT ![p] = Finished("jwt", "LocalError")]
                  /\ pc' = [pc EXCEPT ![p] = IF issuing THEN "idle" ELSE "active"]
                  /\ user' = IF issuing THEN [user EXCEPT ![p] = NoIdentity] ELSE user
             ELSE /\ loc' = [loc EXCEPT ![p] =
                               [NoLoc EXCEPT !.tok = tok, !.issuing = issuing,
                                             !.userData = FindUser(tok.email)]]
                  /\ out' = [out EXCEPT ![p] = NoOut]
                  /\ pc' = [pc EXCEPT ![p] = "jwt_whitelist"]
                  /\ user' = user

\* jwt({token, user}) on issuance, after signIn accepted
JwtIssue(p) ==
  /\ pc[p] = "issue"
  /\ JwtStart(p, TRUE)
  /\ UNCHANGED <<users, whitelist, remote, localUp, remoteUp, req, session, nEnv, nOps>>

\* jwt({token}) on a later use of the token
JwtRefresh(p) ==
  /\ pc[p] = "active"
  /\ nOps < MaxOps
  /\ nOps' = nOps + 1
  /\ JwtStart(p, FALSE)
  /\ UNCHANGED <<users, whitelist, remote, localUp, remoteUp, req, session, nEnv>>

\* prisma.adminWhitelist.findUnique, the four assignments and the return
JwtWhitelist(p) ==
  /\ pc[p] = "jwt_whitelist"
  /\ trace' = [trace EXCEPT ![p] = Append(@, Call("adminWhitelist.findUnique", localUp))]
  /\ IF ~localUp
     THEN /\ out' = [out EXCEPT ![p] = Finished("jwt", "LocalError")]
          /\ pc' = [pc EXCEPT ![p] = IF loc[p].issuing THEN "idle" ELSE "active"]
          /\ user' = IF loc[p].issuing THEN [user EXCEPT ![p] = NoIdentity] ELSE user
          /\ UNCHANGED <<loc, token>>
     ELSE LET adminEntry == FindWhitelist(loc[p].tok.email)
          IN /\ loc' = [loc EXCEPT ![p].adminEntry = adminEntry]
             /\ token' = [token EXCEPT ![p] =
                            JwtResolve(loc[p].tok, loc[p].userData, adminEntry)]
             /\ out' = [out EXCEPT ![p] = Finished("jwt", "ok")]
             /\ pc' = [pc EXCEPT ![p] = "active"]
             /\ user' = user
  /\ UNCHANGED <<users, whitelist, remote, localUp, remoteUp, req, session, nEnv, nOps>>

\* ----------------------------------------------------- callback: session
Session(p) ==
  /\ pc[p] = "active"
  /\ session[p] # ProjectSession(token[p])
  /\ session' = [session EXCEPT ![p] = ProjectSession(token[p])]
  /\ UNCHANGED <<users, whitelist, remote, localUp, remoteUp, pc, req, user, loc, trace,
                 out, token, nEnv, nOps>>

\* the token expires or the user signs out: the request starts over
SignOut(p) ==
  /\ pc[p] = "active"
  /\ pc' = [pc EXCEPT ![p] = "idle"]
  /\ req' = [req EXCEPT ![p] = NoReq]
  /\ user' = [user EXCEPT ![p] = NoIdentity]
  /\ loc' = [loc EXCEPT ![p] = NoLoc]
  /\ trace' = [trace EXCEPT ![p] = <<>>]
  /\ out' = [out EXCEPT ![p] = NoOut]
  /\ token' = [token EXCEPT ![p] = NoToken]
  /\ session' = [session EXCEPT ![p] = NoSession]
  /\ UNCHANGED <<users, whitelist, remote, localUp, remoteUp, nEnv, nOps>>

\* ------------------------------------------------------- the environment
\* an administrator edits the whitelist out-of-band: revokes or restores an
\* entry (its permission flags stay as stored) or deletes it
SetWhitelist(e, row) ==
  /\ nEnv < MaxEnv
  /\ whitelist[e].exists
  /\ row \in {[whitelist[e] EXCEPT !.isActive = ~whitelist[e].isActive], NoEntry}
  /\ whitelist' = [whitelist EXCEPT ![e] = row]
  /\ nEnv' = nEnv + 1
  /\ UNCHANGED <<users, remote, localUp, remoteUp, pc, req, user, loc, trace, out, token,
                 session, nOps>>

\* the remote store goes down or comes back
ToggleRemote ==
  /\ nEnv < MaxEnv
  /\ remoteUp' = ~remoteUp
  /\ nEnv' = nEnv + 1
  /\ UNCHANGED <<users, whitelist, remote, localUp, pc, req, user, loc, trace, out, token,
                 session, nOps>>

\* the local store goes down or comes back
ToggleLocal ==
  /\ nEnv < MaxEnv
  /\ localUp' = ~localUp
  /\ nEnv' = nEnv + 1
  /\ UNCHANGED <<users, whitelist, remote, remoteUp, pc, req, user, loc, trace, out, token,
                 session, nOps>>

\* ------------------------------------------------------------------- Next
Next ==
  \/ \E p \in Solo, c \in CredentialInputs : NeonAuthorize(p, c[1], c[2])
  \/ \E p \in Solo : NeonFinally(p)
  \/ \E p \in Solo, c \in CredentialInputs : CredentialsAuthorize(p, c[1], c[2])
  \/ \E p \in Solo : CredentialsWhitelist(p)
  \/ \E p \in Solo : SignInCredentials(p)
  \/ \E p \in Solo, e \in Emails \cup {NoEmail}, pr \in Principals : SignInFederated(p, e, pr)
  \/ \E p \in Solo : SignInUpsert(p)
  \/ \E p \in Solo : SignInLookup(p)
  \/ \E p \in Solo : SignInCreate(p)
  \/ \E p \in Solo : SignInDisconnect(p)
  \/ \E p \in Solo : JwtIssue(p)
  \/ \E p \in Solo : JwtRefresh(p)
  \/ \E p \in Solo : JwtWhitelist(p)
  \/ \E p \in Solo : Session(p)
  \/ \E p \in Solo : SignOut(p)
  \/ \E e \in Emails : \E row \in {[whitelist[e] EXCEPT !.isActive = ~whitelist[e].isActive], NoEntry} :
       SetWhitelist(e, row)
  \/ ToggleRemote
  \/ ToggleLocal

Spec == Init /\ [][Next]_vars

\* ------------------------------------------ a sign-in and a later sign-in
\* r1 makes a federated sign-in; r2 is a later one, started after r1's signIn
\* returned; the remote store goes down and comes back in between
HealNext ==
  \/ \E e \in Emails, pr \in Principals : SignInFederated("r1", e, pr)
  \/ \E e \in Emails, pr \in Principals :
       out["r1"].op = "signIn" /\ SignInFederated("r2", e, pr)
  \/ \E p \in Procs : SignInUpsert(p)
  \/ \E p \in Procs : SignInLookup(p)
  \/ \E p \in Procs : SignInCreate(p)
  \/ \E p \in Procs : SignInDisconnect(p)
  \/ ToggleRemote

\* every awaited store call of a sign-in returns or throws
HealFairness ==
  \A p \in Procs :
    /\ WF_vars(SignInUpsert(p))
    /\ WF_vars(SignInLookup(p))
    /\ WF_vars(SignInCreate(p))
    /\ WF_vars(SignInDisconnect(p))

HealSpec == Init /\ [][HealNext]_vars /\ HealFairness

\* ------------------------------------------- two simultaneous sign-ins
\* r1 and r2 make federated sign-ins whose steps interleave freely, while
\* the whitelist is edited
RaceNext ==
  \/ \E p \in Procs, e \in Emails, pr \in Principals : SignInFederated(p, e, pr)
  \/ \E p \in Procs : SignInUpsert(p)
  \/ \E p \in Procs : SignInLookup(p)
  \/ \E p \in Procs : SignInCreate(p)
  \/ \E p \in Procs : SignInDisconnect(p)
  \/ \E e \in Emails : \E row \in {[whitelist[e] EXCEPT !.isActive = ~whitelist[e].isActive], NoEntry} :
       SetWhitelist(e, row)

RaceSpec == Init /\ [][RaceNext]_vars

\* ------------------------------ a credential session on unchanged rows
\* local-credential sign-ins and the refreshes of their tokens, while no
\* user row and no whitelist row is changed; the local store may go down
\* and come back
SteadyNext ==
  \/ \E p \in Solo, c \in CredentialInputs : CredentialsAuthorize(p, c[1], c[2])
  \/ \E p \in Solo : CredentialsWhitelist(p)
  \/ \E p \in Solo : SignInCredentials(p)
  \/ \E p \in Solo : JwtIssue(p)
  \/ \E p \in Solo : JwtRefresh(p)
  \/ \E p \in Solo : JwtWhitelist(p)
  \/ \E p \in Solo : SignOut(p)
  \/ ToggleLocal

SteadySpec == Init /\ [][SteadyNext]_vars

\* ================================================================= claims
\* what the formulas read off a state
RoleIsAdmin(row) == row.exists /\ row.role = "ADMIN"
EntryIsActive(row) == row.exists /\ row.isActive
CallsOf(tr, names) == {i \in 1..Len(tr) : tr[i][1] \in names}
FailedCallsOf(tr, names) == {i \in CallsOf(tr, names) : ~tr[i][2]}
RemoteCallNames == {"authenticateUser", "createUser", "disconnect"}
\* the step on which request p's jwt callback returns claims it resolved
JwtReturns(p) == pc[p] = "jwt_whitelist" /\ out'[p] = Finished("jwt", "ok")
\* request p's jwt callback has returned claims it resolved from the stores
JwtResolved(p) ==
  out[p] = Finished("jwt", "ok") /\ loc[p].tok.email # NoEmail /\ token[p].exists

\* C1: a jwt callback whose token carries an email returns isAdmin = TRUE
\* exactly when the user row of that email has role ADMIN and the whitelist
\* row of that email exists and is active; a missing user row counts as a
\* non-ADMIN role and a missing whitelist row as an inactive one.
C1_AdminIffRoleAndActive ==
  [][\A p \in Procs :
       JwtReturns(p) =>
         (token'[p].isAdmin
            <=> (/\ users[loc[p].tok.email].exists
                 /\ users[loc[p].tok.email].role = "ADMIN"
                 /\ whitelist[loc[p].tok.email].exists
                 /\ whitelist[loc[p].tok.email].isActive))]_vars

\* a refresh made the request an administrator
C1_Witness ==
  \E p \in Procs :
    /\ JwtResolved(p)
    /\ token[p].isAdmin
    /\ RoleIsAdmin(loc[p].userData)
    /\ EntryIsActive(loc[p].adminEntry)

\* C2: in all claims that carry the authorization fields, isAdmin = FALSE
\* comes with the three permissions FALSE, whatever the whitelist row stores.
C2_NoPermissionWithoutAdmin ==
  \A p \in Procs :
    (token[p].exists /\ "isAdmin" \in token[p].keys /\ ~token[p].isAdmin)
      => (/\ ~token[p].canManageUsers
          /\ ~token[p].canManageContent
          /\ ~token[p].canManageSettings)

\* a refresh read an inactive whitelist row whose three flags are set and
\* returned a non-administrator
C2_Witness ==
  \E p \in Procs :
    /\ JwtResolved(p)
    /\ ~token[p].isAdmin
    /\ loc[p].adminEntry = Entry(FALSE, TRUE, TRUE, TRUE)
    /\ RoleIsAdmin(loc[p].userData)

\* C3: when a jwt callback returns isAdmin = TRUE, each of the three
\* permissions it returns is the flag of that name in the whitelist row of the
\* token's email.
C3_PermissionsFromWhitelist ==
  [][\A p \in Procs :
       (JwtReturns(p) /\ token'[p].isAdmin) =>
         (/\ token'[p].canManageUsers = whitelist[loc[p].tok.email].canManageUsers
          /\ token'[p].canManageContent = whitelist[loc[p].tok.email].canManageContent
          /\ token'[p].canManageSettings = whitelist[loc[p].tok.email].canManageSettings)]_vars

\* role ADMIN, whitelist {active, users} gave {TRUE, TRUE, FALSE, FALSE}
C3_Witness ==
  \E p \in Procs :
    /\ JwtResolved(p)
    /\ loc[p].adminEntry = Entry(TRUE, TRUE, FALSE, FALSE)
    /\ whitelist[token[p].email] = Entry(TRUE, TRUE, FALSE, FALSE)
    /\ token[p].isAdmin /\ token[p].canManageUsers
    /\ ~token[p].canManageContent /\ ~token[p].canManageSettings

\* C4: a refresh (no sign-in before it) of claims that say isAdmin = TRUE,
\* made when the whitelist row of the email is inactive or gone, returns
\* isAdmin = FALSE and the three permissions FALSE: the verdict comes from the
\* stores, not from the fields the claims already hold.
C4_RevocationPropagates ==
  [][\A p \in Procs :
       (/\ JwtReturns(p)
        /\ ~loc[p].issuing
        /\ token[p].isAdmin
        /\ ~(whitelist[token[p].email].exists /\ whitelist[token[p].email].isActive))
       => (/\ ~token'[p].isAdmin
           /\ ~token'[p].canManageUsers
           /\ ~token'[p].canManageContent
           /\ ~token'[p].canManageSettings)]_vars

\* claims that said isAdmin = TRUE were refreshed after the entry was
\* deactivated, and now say FALSE
C4_Witness ==
  \E p \in Procs :
    /\ JwtResolved(p)
    /\ ~loc[p].issuing
    /\ loc[p].tok.isAdmin
    /\ loc[p].adminEntry.exists /\ ~loc[p].adminEntry.isActive
    /\ ~token[p].isAdmin

\* C5: a federated signIn in which a remote-store call failed has returned
\* accept, and the user row of the email holds the name, the image and the
\* role of that sign-in.
C5_RemoteFailureTolerated ==
  \A p \in Procs :
    (out[p].op = "signIn" /\ FailedCallsOf(trace[p], RemoteCallNames) # {})
      => (/\ out[p].result = "accept"
          /\ users[user[p].email].exists
          /\ users[user[p].email].name = user[p].name
          /\ users[user[p].email].image = user[p].image
          /\ users[user[p].email].role = loc[p].userRole)

\* every remote call of a finished federated signIn failed
C5_Witness ==
  \E p \in Procs :
    /\ out[p] = Finished("signIn", "accept")
    /\ req[p].provider = "google"
    /\ CallsOf(trace[p], RemoteCallNames) # {}
    /\ FailedCallsOf(trace[p], RemoteCallNames) = CallsOf(trace[p], RemoteCallNames)
    /\ users[user[p].email].exists

\* the step on which request p's federated signIn writes the user row
UpsertReturns(p) == pc[p] = "si_upsert" /\ pc'[p] = "si_lookup"
\* the user row of request p's email holds what p's signIn writes
RowAsWritten(tbl, p) ==
  /\ tbl[user[p].email].exists
  /\ tbl[user[p].email].name = user[p].name
  /\ tbl[user[p].email].image = user[p].image
  /\ tbl[user[p].email].role = loc[p].userRole

\* C6: the upsert of a federated signIn leaves one user row for the email,
\* holding the name, the image and the role of that sign-in, and touches no
\* other row; run on a store that already holds that row (as a first run with
\* the same principal and the same whitelist left it), it changes nothing.
C6_FederatedUpsertIdempotent ==
  [][\A p \in Procs :
       UpsertReturns(p) =>
         (/\ RowAsWritten(users', p)
          /\ \A o \in Emails \ {user[p].email} : users'[o] = users[o]
          /\ RowAsWritten(users, p) => users' = users)]_vars

\* a second federated signIn of the same principal: the remote record it
\* finds is the one its first run created, and the user row is as written
C6_Witness ==
  \E p \in Procs :
    /\ pc[p] = "si_disconnect"
    /\ loc[p].neonUser = RemoteRow(user[p].name, loc[p].userRole, NoHash)
    /\ RowAsWritten(users, p)
    /\ loc[p].userRole = "ADMIN"

\* C7: a finished federated signIn that acquired the remote-store handle has
\* called disconnect(), on whichever path it left the try block.
C7_SignInAlwaysDisconnects ==
  \A p \in Procs :
    (out[p].op = "signIn" /\ CallsOf(trace[p], {"getNeonAuthService"}) # {})
      => CallsOf(trace[p], {"disconnect"}) # {}

\* C8: a finished neon-auth authorize that acquired the remote-store handle
\* has called disconnect() exactly once, as its last store call, whatever its
\* result.
C8_AuthorizeDisconnectsOnce ==
  \A p \in Procs :
    (out[p].op = "neon-auth" /\ CallsOf(trace[p], {"getNeonAuthService"}) # {})
      => (/\ Cardinality(CallsOf(trace[p], {"disconnect"})) = 1
          /\ trace[p][Len(trace[p])][1] = "disconnect")

\* authenticateUser threw, and authorize still disconnected once
C8_Witness ==
  \E p \in Procs :
    /\ out[p].op = "neon-auth"
    /\ FailedCallsOf(trace[p], {"authenticateUser"}) # {}
    /\ Cardinality(CallsOf(trace[p], {"disconnect"})) = 1

\* C9: a credential strategy tried with an empty email or an empty password
\* has rejected with MissingCredentials without a single store call.
C9_MissingCredentialsBeforeStores ==
  \A p \in Procs :
    (/\ req[p].provider \in {"neon-auth", "credentials"}
     /\ (req[p].email = NoEmail \/ req[p].password = NoPassword))
      => (/\ out[p] = Finished(req[p].provider, "MissingCredentials")
          /\ trace[p] = <<>>
          /\ pc[p] = "idle")

\* the credentials strategy was tried with an email and no password
C9_Witness ==
  \E p \in Procs :
    /\ req[p].provider = "credentials"
    /\ req[p].email # NoEmail
    /\ req[p].password = NoPassword
    /\ out[p].result = "MissingCredentials"

\* the remote record that matches the credentials of request p
RemoteMatch(p) ==
  /\ remote[req[p].email].exists
  /\ remote[req[p].email].password = Hash(req[p].password)

C11_LocalUserRejected ==
  \A p \in Procs :
    (/\ out[p].op = "neon-auth"
     /\ FailedCallsOf(trace[p], RemoteCallNames) = {}
     /\ Len(trace[p]) >= 2
     /\ RemoteMatch(p)
     /\ users[req[p].email].exists
     /\ users[req[p].email].role = "USER")
      => out[p].result = "NotAuthorized"

\* C11 amended: the role that decides is the one of the remote record.  With
\* the right password and a remote record of role USER, authorize returns no
\* identity, and fails with NotAuthorized when disconnect() answered,
\* whatever role the user row of the email holds.
C11_RemoteUserRejected ==
  \A p \in Procs :
    (/\ out[p].op = "neon-auth"
     /\ Len(trace[p]) >= 2 /\ trace[p][2][2]
     /\ RemoteMatch(p)
     /\ remote[req[p].email].role = "USER")
      => (/\ out[p].result # "ok"
          /\ trace[p][3][2] => out[p].result = "NotAuthorized")

\* a remote record of role USER was turned away although the user row of the
\* email says ADMIN
C11_Witness ==
  \E p \in Procs :
    /\ out[p] = Finished("neon-auth", "NotAuthorized")
    /\ RemoteMatch(p)
    /\ remote[req[p].email].role = "USER"
    /\ users[req[p].email].exists
    /\ users[req[p].email].role = "ADMIN"

\* the step on which request p's credentials authorize returns or throws
CredentialsReturns(p) ==
  /\ out'[p].op = "credentials"
  /\ pc[p] = "cred_whitelist" \/ nOps' # nOps

\* C12: a credentials authorize whose store reads answered returns an
\* identity exactly when the user row of the email exists with a password
\* hash, the password given is the one hashed, the row's role is ADMIN and
\* the whitelist row of the email exists and is active.
C12_CredentialsIdentityIff ==
  [][\A p \in Procs :
       (CredentialsReturns(p) /\ out'[p].result # "LocalError") =>
         (out'[p].result = "ok"
            <=> (/\ req'[p].email # NoEmail
                 /\ users[req'[p].email].exists
                 /\ users[req'[p].email].password # NoHash
                 /\ users[req'[p].email].password = Hash(req'[p].password)
                 /\ users[req'[p].email].role = "ADMIN"
                 /\ whitelist[req'[p].email].exists
                 /\ whitelist[req'[p].email].isActive))]_vars

\* the credentials strategy returned an identity
C12_Witness ==
  \E p \in Procs :
    /\ out[p] = Finished("credentials", "ok")
    /\ user[p].exists
    /\ RoleIsAdmin(loc[p].userData)
    /\ EntryIsActive(loc[p].adminEntry)

LocalCallNames == {"user.findUnique", "adminWhitelist.findUnique", "user.upsert"}

\* C13: a finished federated signIn for a principal with an email, whose
\* local-store calls answered, returned accept whatever whitelist row it
\* read; the row decided only the role written to the user row.
C13_FederatedAlwaysAccepted ==
  \A p \in Procs :
    (/\ out[p].op = "signIn"
     /\ req[p].provider = "google"
     /\ req[p].email # NoEmail
     /\ FailedCallsOf(trace[p], LocalCallNames) = {})
      => (/\ out[p].result = "accept"
          /\ pc[p] = "issue"
          /\ loc[p].userRole = (IF loc[p].adminEntry.exists /\ loc[p].adminEntry.isActive
                                THEN "ADMIN" ELSE "USER")
          /\ users[req[p].email].role = loc[p].userRole)

\* a federated principal whose whitelist row is absent or inactive was
\* accepted and written as USER
C13_Witness ==
  \E p \in Procs :
    /\ out[p] = Finished("signIn", "accept")
    /\ req[p].provider = "google"
    /\ req[p].email # NoEmail
    /\ ~EntryIsActive(loc[p].adminEntry)
    /\ ~EntryIsActive(whitelist[req[p].email])
    /\ users[req[p].email].role = "USER"

\* C14: a finished token refresh never raised; when one of its reads of
\* the user row or the whitelist row failed it still returned claims, with
\* isAdmin and the three permissions FALSE.
C14_RefreshNeverRaises ==
  \A p \in Procs :
    (out[p].op = "jwt" /\ ~loc[p].issuing) =>
      /\ out[p].result = "ok"
      /\ FailedCallsOf(trace[p], LocalCallNames) # {} =>
           /\ token[p].isAdmin = FALSE
           /\ token[p].canManageUsers = FALSE
           /\ token[p].canManageContent = FALSE
           /\ token[p].canManageSettings = FALSE

IdentityKeys == {"name", "email", "image"}
VerdictKeys == {"id", "isAdmin", "canManageUsers", "canManageContent", "canManageSettings"}
TokenKeys == {"name", "email", "picture", "sub"} \cup VerdictKeys

\* the password hashes held by the stores and the remote-store payload of
\* the identities authorize returned
Secrets ==
  ({users[e].password : e \in Emails} \cup {remote[e].password : e \in Emails}
     \cup {user[p].neonRole : p \in Procs} \cup {user[p].permissions : p \in Procs})
    \ {<<>>}

TokenValues(tok) == {tok.email, tok.name, tok.picture, tok.sub, tok.id}
SessionValues(ses) == {ses.email, ses.name, ses.image, ses.id}

\* C15: the session view holds the identity fields and id, isAdmin,
\* canManageUsers, canManageContent, canManageSettings only, each as it is
\* in the token the view was made from; no password hash and no remote-store
\* payload (neonRole, permissions) is a key or a value of the token or of
\* the view, whatever strategy signed in.
C15_SessionProjection ==
  [][\A p \in Procs :
       /\ token'[p].keys \subseteq TokenKeys
       /\ TokenValues(token'[p]) \cap Secrets' = {}
       /\ SessionValues(session'[p]) \cap Secrets' = {}
       /\ session'[p].exists => session'[p].keys = IdentityKeys \cup VerdictKeys
       /\ session'[p] # session[p] /\ session'[p].exists =>
            /\ session'[p].id = token[p].id
            /\ session'[p].isAdmin = token[p].isAdmin
            /\ session'[p].canManageUsers = token[p].canManageUsers
            /\ session'[p].canManageContent = token[p].canManageContent
            /\ session'[p].canManageSettings = token[p].canManageSettings]_vars

\* a view made from the token of a remote-credential sign-in whose identity
\* carried neonRole and permissions
C15_Witness ==
  \E p \in Procs :
    /\ req[p].provider = "neon-auth"
    /\ user[p].neonRole # <<>>
    /\ user[p].permissions # <<>>
    /\ session[p].exists
    /\ session[p] = ProjectSession(token[p])
    /\ token[p].isAdmin

ProvisioningCallNames == {"authenticateUser", "createUser"}

\* C16: a federated sign-in whose lookup and creation calls on the remote
\* store answered leaves a RemoteUserRecord for its email, also when an
\* earlier sign-in of that email failed to provision it during an outage;
\* and a sign-in that reaches provisioning while the remote store is up
\* leads to the record existing, unless the store goes down again first.
C16_SelfHealing ==
  /\ [](\A p \in Procs :
          (/\ out[p] = Finished("signIn", "accept")
           /\ req[p].email # NoEmail
           /\ FailedCallsOf(trace[p], ProvisioningCallNames) = {})
            => remote[req[p].email].exists)
  /\ \A p \in Procs : \A e \in Emails :
       (pc[p] = "si_lookup" /\ req[p].email = e /\ remoteUp)
         ~> (remote[e].exists \/ ~remoteUp)

\* r1's provisioning failed while the remote store was down and no record
\* existed; the later sign-in r2 of the same email created the record
C16_Witness ==
  /\ out["r1"] = Finished("signIn", "accept")
  /\ FailedCallsOf(trace["r1"], ProvisioningCallNames) # {}
  /\ req["r2"].email = req["r1"].email
  /\ out["r2"] = Finished("signIn", "accept")
  /\ \E i \in 1..Len(trace["r2"]) : trace["r2"][i] = Call("createUser", TRUE)
  /\ remote[req["r1"].email].exists

\* the case-normalized form of an email
Normalized(e) == IF e = "A@x.com" THEN "a@x.com" ELSE e

\* C17: the email is case-normalized before it is used as a key: the upsert
\* of a federated signIn writes the user row of the normalized email and no
\* row is kept under another spelling, and a jwt callback returns the
\* verdict of the user row and the whitelist row of the normalized email, so
\* emails that differ only in letter case share rows and verdict.
C17_EmailCaseNormalized ==
  [][\A p \in Procs :
       /\ UpsertReturns(p) =>
            /\ users'[Normalized(user[p].email)].exists
            /\ users'[Normalized(user[p].email)].name = user[p].name
            /\ \A e \in Emails : Normalized(e) # e => ~users'[e].exists
       /\ JwtReturns(p) =>
            token'[p].isAdmin =
              (/\ RoleIsAdmin(users[Normalized(loc[p].tok.email)])
               /\ EntryIsActive(whitelist[Normalized(loc[p].tok.email)]))]_vars

\* a password that matches no stored hash
WrongPassword == "pw0"

\* request p's credential strategy rejected credentials it evaluated: both
\* were given and every store call answered
Rejected(p) ==
  /\ out[p].op \in {"neon-auth", "credentials"}
  /\ out[p].result \notin {"", "ok"}
  /\ req[p].email # NoEmail /\ req[p].password # NoPassword
  /\ FailedCallsOf(trace[p], LocalCallNames \cup RemoteCallNames) = {}

\* C18: the outcome of a rejection that the caller of authorize sees is the
\* one a wrong password gets on the same account, also when the password
\* was right and the account is not an administrator or not whitelisted.
C18_UniformRejection ==
  \A p \in Procs :
    Rejected(p) =>
      out[p].result =
        (IF out[p].op = "credentials"
         THEN CredentialsCheck(users[req[p].email], WrongPassword)
         ELSE NeonCheck(RemoteAuthenticate(remote, req[p].email, WrongPassword)))

\* the requests whose signIn for email e has had its upsert answered
Upserted(e) ==
  {p \in Procs : /\ req[p].provider = "google" /\ req[p].email = e
                 /\ \E i \in 1..Len(trace[p]) : trace[p][i] = Call("user.upsert", TRUE)}

\* C19: however the steps of two simultaneous federated sign-ins for one
\* email interleave, the email has one user row and its name, image and
\* role are those one of the sign-ins wrote; a signIn touches the user
\* table by one upsert call and never reads it first.
C19_ConcurrentUpsertAtomic ==
  /\ \A e \in Emails :
       Upserted(e) # {} => \E p \in Upserted(e) : RowAsWritten(users, p)
  /\ \A p \in Procs :
       req[p].provider = "google" =>
         /\ CallsOf(trace[p], {"user.findUnique"}) = {}
         /\ Cardinality(CallsOf(trace[p], {"user.upsert"})) <= 1

\* both sign-ins of one email have upserted, with different principals and,
\* the whitelist having changed between their reads, different roles
C19_Witness ==
  \E e \in Emails :
    /\ Upserted(e) = Procs
    /\ user["r1"].name # user["r2"].name
    /\ loc["r1"].userRole # loc["r2"].userRole
    /\ RowAsWritten(users, "r1")
    /\ pc["r2"] = "issue"

\* request p is in, or has just finished, a federated signIn
InFederatedSignIn(p) ==
  /\ req[p].provider = "google"
  /\ pc[p] \in {"si_upsert", "si_lookup", "si_create", "si_disconnect"}
       \/ out[p].op = "signIn"

\* C20: in a federated signIn every call on the remote store comes after
\* the answered user.upsert; when the whitelist read or the upsert fails
\* the signIn ends with that error and makes no remote-store call.
C20_LocalBeforeRemote ==
  \A p \in Procs :
    InFederatedSignIn(p) =>
      /\ \A i \in CallsOf(trace[p], RemoteCallNames \cup {"getNeonAuthService"}) :
           \E j \in 1..(i - 1) : trace[p][j] = Call("user.upsert", TRUE)
      /\ FailedCallsOf(trace[p], LocalCallNames) # {} =>
           /\ out[p] = Finished("signIn", "LocalError")
           /\ CallsOf(trace[p], RemoteCallNames \cup {"getNeonAuthService"}) = {}

\* a signIn whose upsert failed ended with the error, no remote call made
C20_Witness ==
  \E p \in Procs :
    /\ out[p] = Finished("signIn", "LocalError")
    /\ trace[p] = <<Call("adminWhitelist.findUnique", TRUE), Call("user.upsert", FALSE)>>

\* C21: the upsert of a federated signIn leaves the user row of the email
\* with role ADMIN exactly when the whitelist row that signIn read existed
\* and was active, and with role USER otherwise, whether the row is created
\* or updated: a row that was ADMIN is demoted.
C21_RoleFollowsWhitelistRead ==
  [][\A p \in Procs :
       UpsertReturns(p) =>
         /\ users'[user[p].email].exists
         /\ users'[user[p].email].role \in {"ADMIN", "USER"}
         /\ users'[user[p].email].role = "ADMIN"
              <=> (loc[p].adminEntry.exists /\ loc[p].adminEntry.isActive)]_vars

\* r1 wrote ADMIN for the email; r2, having read an inactive or absent
\* whitelist row, upserted after it and the row is now USER
C21_Witness ==
  \E e \in Emails :
    /\ Upserted(e) = Procs
    /\ loc["r1"].userRole = "ADMIN"
    /\ ~EntryIsActive(loc["r2"].adminEntry)
    /\ users[e].role = "USER"

\* the step on which a signIn that is not a federated one with an email
\* returns: after a credential strategy, or for a principal without email
SignInPassesThrough(p) ==
  /\ pc[p] \in {"signin", "idle"}
  /\ pc'[p] = "issue"

\* C22: a signIn for a credential strategy, or for a principal without an
\* email, returns accept, leaves the user table, the whitelist and the
\* remote store as they were and makes no store call at all.
C22_SynchronizerFederatedOnly ==
  [][\A p \in Procs :
       SignInPassesThrough(p) =>
         /\ req'[p].provider # "google" \/ req'[p].email = NoEmail
         /\ out'[p] = Finished("signIn", "accept")
         /\ trace'[p] = <<>>
         /\ users' = users
         /\ whitelist' = whitelist
         /\ remote' = remote]_vars

\* a signIn after the local-credential strategy returned accept with no
\* call made, for an email whose remote record is absent
C22_Witness ==
  \E p \in Procs :
    /\ req[p].provider = "credentials"
    /\ out[p] = Finished("signIn", "accept")
    /\ pc[p] = "issue"
    /\ trace[p] = <<>>
    /\ ~remote[req[p].email].exists

\* request p takes a step of the remote part of its federated signIn
ProvisioningStep(p) ==
  /\ pc[p] \in {"si_lookup", "si_create", "si_disconnect"}
  /\ pc'[p] # pc[p]

\* C23: a federated signIn calls createUser only after its lookup returned
\* no record, and the record created has the role computed from the
\* whitelist row it read; every other step of the remote part, and so a
\* signIn whose lookup returned a record, leaves the remote store as it was,
\* the role of the existing record included.
C23_CreateOnlyWhenAbsent ==
  [][\A p \in Procs :
       ProvisioningStep(p) =>
         /\ pc'[p] = "si_create" => ~loc'[p].neonUser.exists
         /\ IF pc[p] = "si_create" /\ remoteUp
            THEN /\ ~loc[p].neonUser.exists
                 /\ remote' = [remote EXCEPT ![user[p].email] =
                                 [exists |-> TRUE, name |-> user[p].name,
                                  role |-> IF EntryIsActive(loc[p].adminEntry)
                                           THEN "ADMIN" ELSE "USER",
                                  password |-> NoHash]]
            ELSE remote' = remote]_vars

\* a signIn computed ADMIN, found a remote record of role USER and finished
\* without createUser: the record still has role USER
C23_Witness ==
  \E p \in Procs :
    /\ out[p] = Finished("signIn", "accept")
    /\ req[p].provider = "google"
    /\ loc[p].userRole = "ADMIN"
    /\ loc[p].neonUser.exists
    /\ CallsOf(trace[p], {"createUser"}) = {}
    /\ remote[req[p].email].exists
    /\ remote[req[p].email].role = "USER"

\* the step on which request p's jwt callback returns on issuance
IssuanceReturns(p) ==
  /\ out'[p] = Finished("jwt", "ok")
  /\ pc[p] = "issue" \/ (pc[p] = "jwt_whitelist" /\ loc[p].issuing)

SeededKeys == {"name", "email", "picture", "sub", "id"}

\* C24: on issuance the jwt callback adds the id of the identity to the
\* claims and nothing else: isAdmin, canManageUsers, canManageContent and
\* canManageSettings are not written at issuance.
C24_IssuanceSeedsIdOnly ==
  [][\A p \in Procs :
       IssuanceReturns(p) =>
         /\ token'[p].id = user[p].id
         /\ token'[p].keys = SeededKeys]_vars

\* C24, amended: on issuance the jwt callback adds the id of the identity
\* and, when the claims carry an email, the four authorization fields as
\* well, exactly as on a refresh; the identity fields of the claims are as
\* the framework built them.
C24_IssuanceSeedsIdAndVerdict ==
  [][\A p \in Procs :
       IssuanceReturns(p) =>
         /\ token'[p].exists
         /\ token'[p].id = user[p].id
         /\ token'[p].email = user[p].email
         /\ token'[p].name = user[p].name
         /\ token'[p].picture = user[p].image
         /\ token'[p].sub = user[p].id
         /\ token'[p].keys =
              SeededKeys \cup (IF user[p].email # NoEmail
                               THEN {"isAdmin", "canManageUsers", "canManageContent",
                                     "canManageSettings"}
                               ELSE {})]_vars

\* claims just issued that already hold an administrator verdict
C24_Witness ==
  \E p \in Procs :
    /\ out[p] = Finished("jwt", "ok")
    /\ loc[p].issuing
    /\ token[p].id = user[p].id
    /\ token[p].isAdmin
    /\ token[p].canManageUsers

\* the password request p gave is the one of the user row its authorize read
PasswordMatched(p) ==
  /\ loc[p].userData.exists
  /\ loc[p].userData.password # NoHash
  /\ loc[p].userData.password = Hash(req[p].password)

\* C25: the local-credential strategy fails InvalidCredentials exactly when
\* the row is absent, has no hash or the password does not match, whatever
\* role and whitelist are; NotAuthorized for the role exactly when the
\* password matched and the role is not ADMIN; NotAuthorized for the
\* whitelist exactly when password and role passed and the row read is not
\* an active one; and the whitelist is read only after password and role
\* passed.
C25_CredentialsCheckOrder ==
  \A p \in Procs :
    /\ (out[p].op = "credentials"
        /\ out[p].result \in {"InvalidCredentials", "NotAuthorized", "NotWhitelisted", "ok"}) =>
         /\ out[p].result = "InvalidCredentials" <=> ~PasswordMatched(p)
         /\ out[p].result = "NotAuthorized"
              <=> (PasswordMatched(p) /\ loc[p].userData.role # "ADMIN")
         /\ out[p].result = "NotWhitelisted"
              <=> (/\ PasswordMatched(p) /\ loc[p].userData.role = "ADMIN"
                   /\ ~(loc[p].adminEntry.exists /\ loc[p].adminEntry.isActive))
    /\ (req[p].provider = "credentials"
        /\ (pc[p] = "cred_whitelist" \/ out[p].op = "credentials")
        /\ CallsOf(trace[p], {"adminWhitelist.findUnique"}) # {}) =>
         (PasswordMatched(p) /\ loc[p].userData.role = "ADMIN")
    /\ pc[p] = "cred_whitelist" =>
         (PasswordMatched(p) /\ loc[p].userData.role = "ADMIN")

\* a right password on a USER row whose whitelist row is active: rejected
\* for the role, the whitelist never read
C25_Witness ==
  \E p \in Procs :
    /\ out[p] = Finished("credentials", "NotAuthorized")
    /\ PasswordMatched(p)
    /\ trace[p] = <<Call("user.findUnique", TRUE)>>
    /\ EntryIsActive(whitelist[req[p].email])

\* the four authorization fields as a function of a user row and a
\* whitelist row, and of nothing else
VerdictOf(userRow, entry) ==
  LET admin == userRow.exists /\ userRow.role = "ADMIN" /\ entry.exists /\ entry.isActive
  IN <<admin, admin /\ entry.canManageUsers, admin /\ entry.canManageContent,
       admin /\ entry.canManageSettings>>

\* C26: the verdict a jwt callback writes is determined by the user row and
\* the whitelist row of the token's email alone: whatever the remote store
\* holds and whichever strategy signed in, the four fields are VerdictOf
\* those two rows.
C26_VerdictFromLocalRowsOnly ==
  [][\A p \in Procs :
       JwtReturns(p) =>
         <<token'[p].isAdmin, token'[p].canManageUsers, token'[p].canManageContent,
           token'[p].canManageSettings>>
           = VerdictOf(users[loc[p].tok.email], whitelist[loc[p].tok.email])]_vars

\* a remote-credential sign-in passed on a remote ADMIN record with the
\* whitelist row active, and the claims say isAdmin FALSE because the user
\* row is not an ADMIN one
C26_Witness ==
  \E p \in Procs :
    /\ req[p].provider = "neon-auth"
    /\ out[p] = Finished("jwt", "ok")
    /\ remote[req[p].email].role = "ADMIN"
    /\ EntryIsActive(whitelist[req[p].email])
    /\ ~RoleIsAdmin(users[req[p].email])
    /\ token[p].exists
    /\ "isAdmin" \in token[p].keys
    /\ ~token[p].isAdmin

\* C27: while neither the user row nor the whitelist row of the email
\* changes after a successful local-credential validation, every jwt
\* callback that returns claims for that session, the one at issuance and
\* each refresh, returns isAdmin TRUE.
C27_ValidatedThenAdmin ==
  \A p \in Procs :
    (req[p].provider = "credentials" /\ out[p] = Finished("jwt", "ok")) =>
      /\ "isAdmin" \in token[p].keys
      /\ token[p].isAdmin = TRUE

\* a refresh, after issuance, of the claims of a local-credential session
C27_Witness ==
  \E p \in Procs :
    /\ req[p].provider = "credentials"
    /\ out[p] = Finished("jwt", "ok")
    /\ ~loc[p].issuing
    /\ pc[p] = "active"
    /\ token[p].isAdmin

\* the requests whose signIn for email e called createUser
Creators(e) ==
  {p \in Procs : /\ req[p].provider = "google" /\ req[p].email = e
                 /\ CallsOf(trace[p], {"createUser"}) # {}}

\* C28: however the steps of two simultaneous federated sign-ins for an
\* email without a remote record interleave, createUser is called at most
\* once for that email.
C28_CreateAtMostOnce ==
  \A e \in Emails : Cardinality(Creators(e)) <= 1

====
